---------------------------- MODULE Spec2Model ----------------------------
(***************************************************************************)
(* Model of auro_request_accept.py: the join-request approval path         *)
(* (approve_user, save_user) and the broadcast fan-out engine (broadcast,  *)
(* cancel_broadcast, show_broadcast_stats, handle_broadcast_message,       *)
(* button_handler).                                                        *)
(*                                                                         *)
(* Every handler is a coroutine.  A handler runs without interruption from *)
(* one "await" to the next; at an await (a call to the platform) other     *)
(* handlers may run.  One action of the model is therefore the code of a   *)
(* handler between two consecutive awaits, and the pc of a handler names   *)
(* the line of the await it is suspended at.  A handler whose only state   *)
(* change follows its first await and precedes its last (broadcast,        *)
(* button_handler, approve_user) is one action, taken when that await      *)
(* returns.  A platform call returns normally or raises.                   *)
(***************************************************************************)
EXTENDS Integers, Sequences, FiniteSets, TLC

\* ------------------------------------------------------------- bounds
\* Recipient identities are 1 .. MaxRecipients.
MaxRecipients == 3
\* Broadcast runs (handle_broadcast_message invocations that start a run).
MaxRuns == 2
\* Recipients where runs overlap.
MaxOverlapRecipients == 2
\* Recipients where the indices of the progress updates are followed.
MaxProgressRecipients == 12

\* ------------------------------------------------------------- identities
ADMIN_IDS == {1524473035}
\* Actors that send commands and press buttons: the operators and one
\* identity that is not an operator.
Outsiders == {1}
Actors == ADMIN_IDS \cup Outsiders
RecipientIds == 1 .. MaxRecipients
ChannelIds == {"X", "Y"}
RunIds == 1 .. MaxRuns

\* ------------------------------------------------------------- strings
\* str(e) is a sequence of characters, so that lower() and "in" are
\* computed on the text.
UpperCase == <<"A", "B", "C", "D", "E", "F", "G", "H", "I", "J", "K", "L", "M",
               "N", "O", "P", "Q", "R", "S", "T", "U", "V", "W", "X", "Y", "Z">>
LowerCase == <<"a", "b", "c", "d", "e", "f", "g", "h", "i", "j", "k", "l", "m",
               "n", "o", "p", "q", "r", "s", "t", "u", "v", "w", "x", "y", "z">>

\* The characters of the descriptions.
Characters == {UpperCase[k] : k \in 1 .. 26} \cup {LowerCase[k] : k \in 1 .. 26} \cup {" ", ",", ":"}

\* The lower-case form of each character: a letter of UpperCase maps to the
\* letter of LowerCase at its place, every other character to itself.
LowerTable ==
    [c \in Characters |->
        IF \E k \in 1 .. 26 : UpperCase[k] = c
        THEN LowerCase[CHOOSE k \in 1 .. 26 : UpperCase[k] = c]
        ELSE c]

LowerChar(c) == LowerTable[c]

\* str.lower()
Lower(s) == [k \in 1 .. Len(s) |-> LowerChar(s[k])]

\* sub in s
Contains(s, sub) ==
    \E k \in 0 .. (Len(s) - Len(sub)) : SubSeq(s, k + 1, k + Len(sub)) = sub

StrBlocked  == <<"b", "l", "o", "c", "k", "e", "d">>
StrDeleted  == <<"d", "e", "l", "e", "t", "e", "d">>
StrNotFound == <<"n", "o", "t", " ", "f", "o", "u", "n", "d">>

\* Descriptions a delivery call can raise.
\* "bot was blocked"
ErrBlocked == <<"b", "o", "t", " ", "w", "a", "s", " ", "b", "l", "o", "c", "k", "e", "d">>
\* "Bot Was BLOCKED"
ErrBlockedUpper == <<"B", "o", "t", " ", "W", "a", "s", " ", "B", "L", "O", "C", "K", "E", "D">>
\* "deleted, blocked"
ErrDeletedBlocked == <<"d", "e", "l", "e", "t", "e", "d", ",", " ", "b", "l", "o", "c", "k", "e", "d">>
\* "Not Found: blocked"
ErrNotFoundBlocked == <<"N", "o", "t", " ", "F", "o", "u", "n", "d", ":", " ",
                        "b", "l", "o", "c", "k", "e", "d">>
\* "user Deleted"
ErrDeleted == <<"u", "s", "e", "r", " ", "D", "e", "l", "e", "t", "e", "d">>
\* "Chat not found"
ErrNotFound == <<"C", "h", "a", "t", " ", "n", "o", "t", " ", "f", "o", "u", "n", "d">>
\* "Timed out"
ErrTimedOut == <<"T", "i", "m", "e", "d", " ", "o", "u", "t">>
\* "notfound block" (neither "not found" nor "blocked")
ErrNearMiss == <<"n", "o", "t", "f", "o", "u", "n", "d", " ", "b", "l", "o", "c", "k">>

Descriptions == {ErrBlocked, ErrBlockedUpper, ErrDeletedBlocked, ErrNotFoundBlocked,
                 ErrDeleted, ErrNotFound, ErrTimedOut, ErrNearMiss}
\* The delivery call returned: no exception.
NoError == <<>>
Outcomes == {NoError} \cup Descriptions
\* The outcomes drawn where runs overlap.
OverlapOutcomes == {NoError, ErrBlocked}

\* ------------------------------------------------------------- state
VARIABLES
    \* USERS_FILE: sequence of records [user_id, approved_channels]
    users,
    \* CHANNELS_FILE: sequence of records [channel_id]
    channels,
    \* BROADCASTS_FILE: sequence of BroadcastRun records
    broadcasts,
    \* context.user_data[actor]: one function per key.  A key that holds only
    \* True when present is a BOOLEAN (TRUE: the key is present).
    awaiting_broadcast,
    broadcast_in_progress,
    \* "absent", "true" or "false"
    broadcast_cancelled,
    \* <<>> (key absent) or <<stats record>>
    broadcast_stats,
    \* handle_broadcast_message invocations that passed the empty check
    runs,
    \* cancel_broadcast invocation of each actor: "idle", "L159" or "L163"
    cancel_pc,
    \* the statistics message show_broadcast_stats last sent to each actor:
    \* <<>> (none yet) or <<stats record>>
    stats_message,
    \* the chat_join_request approve_user handled last, and what became of it
    \* (notice: the approval notification is "none", "pending", "sent" or
    \* "failed")
    last_join

stores == <<users, channels, broadcasts>>
user_data == <<awaiting_broadcast, broadcast_in_progress, broadcast_cancelled, broadcast_stats>>
vars == <<users, channels, broadcasts, awaiting_broadcast, broadcast_in_progress,
          broadcast_cancelled, broadcast_stats, runs, cancel_pc, stats_message, last_join>>

\* The progress message as the run last asked the platform to show it: its
\* first line and whether the "Cancel Broadcast" button is attached.
NoMessage == [text |-> "", cancel_button |-> FALSE]
StartingMessage == [text |-> "Starting broadcast...", cancel_button |-> TRUE]
BroadcastingMessage == [text |-> "Broadcasting...", cancel_button |-> TRUE]
CompletedMessage == [text |-> "Broadcast completed!", cancel_button |-> FALSE]

\* A slot of runs that no invocation has used yet.
IdleRun ==
    [pc |-> "idle", user_id |-> 0, users |-> <<>>, total_users |-> 0, i |-> 0,
     successful |-> 0, blocked |-> 0, deleted |-> 0, unsuccessful |-> 0,
     error_msg |-> <<>>, attempts |-> <<>>, edit_failed |-> FALSE,
     exit_cancelled |-> FALSE, persisted |-> 0, cancel_accepted |-> FALSE,
     progress_msg |-> NoMessage]

NoJoin == [user_id |-> 0, channel_id |-> "", approved |-> FALSE, repeated |-> FALSE,
           notice |-> "none"]

\* init_data_files: every store is created as the empty list; user_data is
\* empty for every actor.
Init ==
    /\ users = <<>>
    /\ channels = <<>>
    /\ broadcasts = <<>>
    /\ awaiting_broadcast = [a \in Actors |-> FALSE]
    /\ broadcast_in_progress = [a \in Actors |-> FALSE]
    /\ broadcast_cancelled = [a \in Actors |-> "absent"]
    /\ broadcast_stats = [a \in Actors |-> <<>>]
    /\ runs = [r \in RunIds |-> IdleRun]
    /\ cancel_pc = [a \in Actors |-> "idle"]
    /\ stats_message = [a \in Actors |-> <<>>]
    /\ last_join = NoJoin

\* ------------------------------------------------------------- stores
UserIds(us) == {us[k].user_id : k \in 1 .. Len(us)}
ChannelIdsOf(cs) == {cs[k].channel_id : k \in 1 .. Len(cs)}
SeqToSet(s) == {s[k] : k \in 1 .. Len(s)}
\* The channels recorded for user_id in the store us (empty when absent).
ApprovedChannels(us, user_id) ==
    UNION {SeqToSet(us[k].approved_channels) : k \in {j \in 1 .. Len(us) : us[j].user_id = user_id}}

\* SaveUserRecords without the test "channel_id not in": the channel is
\* appended on every approval.
SaveUserRecordsAppendsAlways(us, user_id, channel_id) ==
    IF \E k \in 1 .. Len(us) : us[k].user_id = user_id
    THEN LET k == CHOOSE j \in 1 .. Len(us) :
                      /\ us[j].user_id = user_id
                      /\ \A m \in 1 .. (j - 1) : us[m].user_id # user_id
         IN  [us EXCEPT ![k].approved_channels = Append(@, channel_id)]
    ELSE Append(us, [user_id |-> user_id, approved_channels |-> <<channel_id>>])

\* save_user, the users half: the first record of user_id gets channel_id
\* appended unless it has it; without such a record a new one is appended.
SaveUserRecords(us, user_id, channel_id) ==
    IF \E k \in 1 .. Len(us) : us[k].user_id = user_id
    THEN LET k == CHOOSE j \in 1 .. Len(us) :
                      /\ us[j].user_id = user_id
                      /\ \A m \in 1 .. (j - 1) : us[m].user_id # user_id
         IN  IF channel_id \in SeqToSet(us[k].approved_channels)
             THEN us
             ELSE [us EXCEPT ![k].approved_channels = Append(@, channel_id)]
    ELSE Append(us, [user_id |-> user_id, approved_channels |-> <<channel_id>>])

\* SaveChannelRecords without the test for an existing record.
SaveChannelRecordsAppendsAlways(cs, channel_id) ==
    Append(cs, [channel_id |-> channel_id])

\* save_user, the channels half.
SaveChannelRecords(cs, channel_id) ==
    IF \E k \in 1 .. Len(cs) : cs[k].channel_id = channel_id
    THEN cs
    ELSE Append(cs, [channel_id |-> channel_id])

save_user(user_id, channel_id) ==
    /\ users' = SaveUserRecords(users, user_id, channel_id)
    /\ channels' = SaveChannelRecords(channels, channel_id)

\* approve_user with save_user called although approve() raised.
approve_user_saves_unapproved(user_id, channel_id, approve_ok) ==
    /\ save_user(user_id, channel_id)
    /\ last_join' = [user_id |-> user_id, channel_id |-> channel_id,
                     approved |-> approve_ok,
                     repeated |-> approve_ok /\ channel_id \in ApprovedChannels(users, user_id),
                     notice |-> IF approve_ok THEN "pending" ELSE "none"]
    /\ UNCHANGED <<broadcasts, user_data, runs, cancel_pc, stats_message>>

\* approve_user up to its second await: a join request of user_id for
\* channel_id.  approve() returns (approve_ok) or raises; the stores are
\* written only after it returned, and then the notification is issued.
approve_user(user_id, channel_id, approve_ok) ==
    /\ IF approve_ok
       THEN save_user(user_id, channel_id)
       ELSE UNCHANGED <<users, channels>>
    /\ last_join' = [user_id |-> user_id, channel_id |-> channel_id,
                     approved |-> approve_ok,
                     repeated |-> approve_ok /\ channel_id \in ApprovedChannels(users, user_id),
                     notice |-> IF approve_ok THEN "pending" ELSE "none"]
    /\ UNCHANGED <<broadcasts, user_data, runs, cancel_pc, stats_message>>

\* The approval notification of the join request handled last was sent or
\* raised (logged and swallowed): the handler returns.
notification_returned(notify_ok) ==
    /\ last_join.notice = "pending"
    /\ last_join' = [last_join EXCEPT !.notice = IF notify_ok THEN "sent" ELSE "failed"]
    /\ UNCHANGED <<stores, user_data, runs, cancel_pc, stats_message>>

\* ------------------------------------------------------------- commands
\* start: the help text is sent; no state is read or written.
start(a) == UNCHANGED vars

\* stats: an actor outside ADMIN_IDS gets the rejection; for an operator the
\* three stores are read and their totals are sent.  Nothing is written.
stats(a) == UNCHANGED vars

\* broadcast where a repeated command of an operator who is already awaiting
\* content takes the awaiting state back.
broadcast_toggles(a, reply_ok) ==
    /\ IF a \in ADMIN_IDS /\ reply_ok
       THEN awaiting_broadcast' = [awaiting_broadcast EXCEPT ![a] = ~@]
       ELSE UNCHANGED awaiting_broadcast
    /\ UNCHANGED <<stores, broadcast_in_progress, broadcast_cancelled, broadcast_stats,
                   runs, cancel_pc, stats_message, last_join>>

\* broadcast: an actor outside ADMIN_IDS gets the rejection and nothing
\* changes; for an operator the prompt is sent (reply_ok) or raises, and only
\* after it was sent is awaiting_broadcast set.
broadcast(a, reply_ok) ==
    /\ IF a \in ADMIN_IDS /\ reply_ok
       THEN awaiting_broadcast' = [awaiting_broadcast EXCEPT ![a] = TRUE]
       ELSE UNCHANGED awaiting_broadcast
    /\ UNCHANGED <<stores, broadcast_in_progress, broadcast_cancelled, broadcast_stats,
                   runs, cancel_pc, stats_message, last_join>>

\* A run of actor a that is between setting and deleting
\* user_data['broadcast_in_progress'] and still in its loop.
InLoop(r) == runs[r].pc \in {"L224", "L239", "L286"}

\* The runs a cancel request of actor a is accepted for.
AcceptCancel(a) ==
    [r \in RunIds |->
        IF InLoop(r) /\ runs[r].user_id = a
        THEN [runs[r] EXCEPT !.cancel_accepted = TRUE]
        ELSE runs[r]]

\* cancel_broadcast whose second branch answers without deleting
\* user_data['awaiting_broadcast'].
cancel_broadcast_keeps_awaiting(a) ==
    /\ cancel_pc[a] = "idle"
    /\ IF broadcast_in_progress[a]
       THEN /\ broadcast_cancelled' = [broadcast_cancelled EXCEPT ![a] = "true"]
            /\ runs' = AcceptCancel(a)
            /\ cancel_pc' = [cancel_pc EXCEPT ![a] = "L159"]
            /\ UNCHANGED awaiting_broadcast
       ELSE IF awaiting_broadcast[a]
       THEN /\ cancel_pc' = [cancel_pc EXCEPT ![a] = "L163"]
            /\ UNCHANGED <<awaiting_broadcast, broadcast_cancelled, runs>>
       ELSE UNCHANGED <<awaiting_broadcast, broadcast_cancelled, runs, cancel_pc>>
    /\ UNCHANGED <<stores, broadcast_in_progress, broadcast_stats, stats_message, last_join>>

\* cancel_broadcast up to its first await (no check of ADMIN_IDS).  One
\* invocation per actor is followed at a time.
cancel_broadcast(a) ==
    /\ cancel_pc[a] = "idle"
    /\ IF broadcast_in_progress[a]
       THEN /\ broadcast_cancelled' = [broadcast_cancelled EXCEPT ![a] = "true"]
            /\ runs' = AcceptCancel(a)
            /\ cancel_pc' = [cancel_pc EXCEPT ![a] = "L159"]
            /\ UNCHANGED awaiting_broadcast
       ELSE IF awaiting_broadcast[a]
       THEN /\ awaiting_broadcast' = [awaiting_broadcast EXCEPT ![a] = FALSE]
            /\ cancel_pc' = [cancel_pc EXCEPT ![a] = "L163"]
            /\ UNCHANGED <<broadcast_cancelled, runs>>
       ELSE UNCHANGED <<awaiting_broadcast, broadcast_cancelled, runs, cancel_pc>>
    /\ UNCHANGED <<stores, broadcast_in_progress, broadcast_stats, stats_message, last_join>>

\* show_broadcast_stats up to its await: without the key the reply is "No
\* broadcast statistics available."; with it the message is built from
\* user_data['broadcast_stats'].
show_broadcast_stats(a) ==
    IF broadcast_stats[a] = <<>>
    THEN UNCHANGED stats_message
    ELSE stats_message' = [stats_message EXCEPT ![a] = broadcast_stats[a]]

\* cancel_broadcast from the return of its reply on.  After "Broadcast
\* cancelled. Partial results:" (L159) show_broadcast_stats follows, unless
\* the reply raised; after "Broadcast preparation cancelled." (L163) the
\* handler returns.
cancel_broadcast_replied(a, reply_ok) ==
    /\ cancel_pc[a] \in {"L159", "L163"}
    /\ cancel_pc' = [cancel_pc EXCEPT ![a] = "idle"]
    /\ IF cancel_pc[a] = "L159" /\ reply_ok
       THEN show_broadcast_stats(a)
       ELSE UNCHANGED stats_message
    /\ UNCHANGED <<stores, user_data, runs, last_join>>

\* button_handler for callback data "cancel_broadcast" (no check of
\* ADMIN_IDS): once query.answer() returned, the flag is set.
button_handler(a, answer_ok) ==
    /\ IF answer_ok
       THEN /\ broadcast_cancelled' = [broadcast_cancelled EXCEPT ![a] = "true"]
            /\ runs' = AcceptCancel(a)
       ELSE UNCHANGED <<broadcast_cancelled, runs>>
    /\ UNCHANGED <<stores, awaiting_broadcast, broadcast_in_progress, broadcast_stats,
                   cancel_pc, stats_message, last_join>>

\* ------------------------------------------------------------- engine
\* Classify with the first two tests in the other order.
ClassifyDeletedFirst(error_msg) ==
    IF Contains(error_msg, StrDeleted) \/ Contains(error_msg, StrNotFound) THEN "deleted"
    ELSE IF Contains(error_msg, StrBlocked) THEN "blocked"
    ELSE "unsuccessful"

\* The Delivery Classifier: the if / elif / else on error_msg.
Classify(error_msg) ==
    IF Contains(error_msg, StrBlocked) THEN "blocked"
    ELSE IF Contains(error_msg, StrDeleted) \/ Contains(error_msg, StrNotFound) THEN "deleted"
    ELSE "unsuccessful"

\* The dict stored under user_data['broadcast_stats'].
StatsOf(run) ==
    [total_users |-> run.total_users, successful |-> run.successful,
     blocked |-> run.blocked, deleted |-> run.deleted, unsuccessful |-> run.unsuccessful]

\* The record appended to BROADCASTS_FILE.
BroadcastRecord(run) ==
    [admin_id |-> run.user_id, total_users |-> run.total_users,
     successful |-> run.successful, blocked |-> run.blocked,
     deleted |-> run.deleted, unsuccessful |-> run.unsuccessful]

FreeRuns(slots) == {r \in slots : runs[r].pc = "idle"}

\* handle_broadcast_message without the check "if not users".
handle_broadcast_message_skips_empty_check(a, slots) ==
    /\ awaiting_broadcast[a]
    /\ a \in ADMIN_IDS
    /\ FreeRuns(slots) # {}
    /\ awaiting_broadcast' = [awaiting_broadcast EXCEPT ![a] = FALSE]
    /\ LET r == CHOOSE x \in FreeRuns(slots) : \A y \in FreeRuns(slots) : x <= y
           run == [IdleRun EXCEPT !.pc = "L224", !.user_id = a,
                                  !.users = [k \in 1 .. Len(users) |-> users[k].user_id],
                                  !.total_users = Len(users),
                                  !.progress_msg = StartingMessage]
       IN  /\ broadcast_stats' = [broadcast_stats EXCEPT ![a] = <<StatsOf(run)>>]
           /\ broadcast_in_progress' = [broadcast_in_progress EXCEPT ![a] = TRUE]
           /\ broadcast_cancelled' = [broadcast_cancelled EXCEPT ![a] = "false"]
           /\ runs' = [runs EXCEPT ![r] = run]
    /\ UNCHANGED <<stores, cancel_pc, stats_message, last_join>>

\* handle_broadcast_message up to its first await: the two early returns,
\* the snapshot of USERS_FILE, the empty check (then the await is the reply
\* "No users in database to broadcast to." at L199), the zeroed statistics
\* and the three keys of user_data.  It starts in the lowest unused slot
\* among slots.
handle_broadcast_message(a, slots) ==
    /\ awaiting_broadcast[a]
    /\ a \in ADMIN_IDS
    /\ FreeRuns(slots) # {}
    /\ awaiting_broadcast' = [awaiting_broadcast EXCEPT ![a] = FALSE]
    /\ LET r == CHOOSE x \in FreeRuns(slots) : \A y \in FreeRuns(slots) : x <= y
       IN  IF users = <<>>
           THEN /\ runs' = [runs EXCEPT ![r] = [IdleRun EXCEPT !.pc = "L199", !.user_id = a]]
                /\ UNCHANGED <<broadcast_stats, broadcast_in_progress, broadcast_cancelled>>
           ELSE LET run == [IdleRun EXCEPT !.pc = "L224", !.user_id = a,
                                           !.users = [k \in 1 .. Len(users) |-> users[k].user_id],
                                           !.total_users = Len(users),
                                           !.progress_msg = StartingMessage]
                IN  /\ broadcast_stats' = [broadcast_stats EXCEPT ![a] = <<StatsOf(run)>>]
                    /\ broadcast_in_progress' = [broadcast_in_progress EXCEPT ![a] = TRUE]
                    /\ broadcast_cancelled' = [broadcast_cancelled EXCEPT ![a] = "false"]
                    /\ runs' = [runs EXCEPT ![r] = run]
    /\ UNCHANGED <<stores, cancel_pc, stats_message, last_join>>

\* The reply "No users in database to broadcast to." returned or raised:
\* the handler is over and nothing of it remains.
no_users_replied(r) ==
    /\ runs[r].pc = "L199"
    /\ runs' = [runs EXCEPT ![r] = IdleRun]
    /\ UNCHANGED <<stores, user_data, cancel_pc, stats_message, last_join>>

\* context.user_data.get('broadcast_cancelled', False)
Cancelled(a) == broadcast_cancelled[a] = "true"

\* LoopHead with a slip: the record is appended whether or not the run was
\* cancelled.
LoopHeadPersistsCancelled(r, run) ==
    LET a == run.user_id
    IN  IF run.i < Len(run.users) /\ ~Cancelled(a)
        THEN /\ runs' = [runs EXCEPT ![r] =
                            [run EXCEPT !.pc = "L239",
                                        !.attempts = Append(@, run.users[run.i + 1])]]
             /\ UNCHANGED <<broadcast_in_progress, broadcasts>>
        ELSE IF ~broadcast_in_progress[a]
        THEN /\ runs' = [runs EXCEPT ![r] =
                            [run EXCEPT !.pc = "raised299", !.exit_cancelled = Cancelled(a)]]
             /\ UNCHANGED <<broadcast_in_progress, broadcasts>>
        ELSE /\ broadcast_in_progress' = [broadcast_in_progress EXCEPT ![a] = FALSE]
             /\ broadcasts' = Append(broadcasts, BroadcastRecord(run))
             /\ runs' = [runs EXCEPT ![r] =
                            [run EXCEPT !.pc = "L326", !.exit_cancelled = Cancelled(a),
                                        !.persisted = @ + 1,
                                        !.progress_msg = CompletedMessage]]

\* LoopHead iterating over USERS_FILE as it is now instead of the list read
\* at the start of the run.
LoopHeadReadsStore(r, run) ==
    LET a == run.user_id
    IN  IF run.i < Len(users) /\ ~Cancelled(a)
        THEN /\ runs' = [runs EXCEPT ![r] =
                            [run EXCEPT !.pc = "L239",
                                        !.attempts = Append(@, users[run.i + 1].user_id)]]
             /\ UNCHANGED <<broadcast_in_progress, broadcasts>>
        ELSE IF ~broadcast_in_progress[a]
        THEN /\ runs' = [runs EXCEPT ![r] =
                            [run EXCEPT !.pc = "raised299", !.exit_cancelled = Cancelled(a)]]
             /\ UNCHANGED <<broadcast_in_progress, broadcasts>>
        ELSE /\ broadcast_in_progress' = [broadcast_in_progress EXCEPT ![a] = FALSE]
             /\ IF Cancelled(a)
                THEN /\ broadcasts' = broadcasts
                     /\ runs' = [runs EXCEPT ![r] =
                                    [run EXCEPT !.pc = "L326", !.exit_cancelled = TRUE,
                                                !.progress_msg = CompletedMessage]]
                ELSE /\ broadcasts' = Append(broadcasts, BroadcastRecord(run))
                     /\ runs' = [runs EXCEPT ![r] =
                                    [run EXCEPT !.pc = "L326", !.persisted = @ + 1,
                                                !.progress_msg = CompletedMessage]]

\* The code of a run from the head of the for loop to the next await, for the
\* run record "run" whose index i is the next one: either the cancel check
\* passes and the delivery call for users[i] is issued, or the loop is left
\* (exhausted or break), the running marker is deleted (KeyError when it is
\* gone), the record is appended unless cancelled, and the final edit of the
\* progress message is issued.
LoopHead(r, run) ==
    LET a == run.user_id
    IN  IF run.i < Len(run.users) /\ ~Cancelled(a)
        THEN /\ runs' = [runs EXCEPT ![r] =
                            [run EXCEPT !.pc = "L239",
                                        !.attempts = Append(@, run.users[run.i + 1])]]
             /\ UNCHANGED <<broadcast_in_progress, broadcasts>>
        ELSE IF ~broadcast_in_progress[a]
        THEN /\ runs' = [runs EXCEPT ![r] =
                            [run EXCEPT !.pc = "raised299", !.exit_cancelled = Cancelled(a)]]
             /\ UNCHANGED <<broadcast_in_progress, broadcasts>>
        ELSE /\ broadcast_in_progress' = [broadcast_in_progress EXCEPT ![a] = FALSE]
             /\ IF Cancelled(a)
                THEN /\ broadcasts' = broadcasts
                     /\ runs' = [runs EXCEPT ![r] =
                                    [run EXCEPT !.pc = "L326", !.exit_cancelled = TRUE,
                                                !.progress_msg = CompletedMessage]]
                ELSE /\ broadcasts' = Append(broadcasts, BroadcastRecord(run))
                     /\ runs' = [runs EXCEPT ![r] =
                                    [run EXCEPT !.pc = "L326", !.persisted = @ + 1,
                                                !.progress_msg = CompletedMessage]]

\* The reply that carries the initial progress message returns or raises;
\* it is not inside a try, so an exception ends the handler there.
progress_msg_replied(r, reply_ok) ==
    /\ runs[r].pc = "L224"
    /\ IF reply_ok
       THEN LoopHead(r, runs[r])
       ELSE /\ runs' = [runs EXCEPT ![r].pc = "raised224"]
            /\ UNCHANGED <<broadcast_in_progress, broadcasts>>
    /\ UNCHANGED <<users, channels, awaiting_broadcast, broadcast_cancelled, broadcast_stats,
                   cancel_pc, stats_message, last_join>>

\* Counted with a slip: a blocked recipient is counted as unsuccessful too.
CountedBlockedTwice(run, e) ==
    IF e = NoError
    THEN [run EXCEPT !.successful = @ + 1]
    ELSE LET error_msg == Lower(e)
             c == Classify(error_msg)
         IN  [run EXCEPT !.error_msg = error_msg,
                         !.blocked = IF c = "blocked" THEN @ + 1 ELSE @,
                         !.deleted = IF c = "deleted" THEN @ + 1 ELSE @,
                         !.unsuccessful = IF c \in {"unsuccessful", "blocked"} THEN @ + 1 ELSE @]

\* The counters after the delivery call of the current recipient returned
\* (e = NoError) or raised an exception whose str() is e.
Counted(run, e) ==
    IF e = NoError
    THEN [run EXCEPT !.successful = @ + 1]
    ELSE LET error_msg == Lower(e)
             c == Classify(error_msg)
         IN  [run EXCEPT !.error_msg = error_msg,
                         !.blocked = IF c = "blocked" THEN @ + 1 ELSE @,
                         !.deleted = IF c = "deleted" THEN @ + 1 ELSE @,
                         !.unsuccessful = IF c = "unsuccessful" THEN @ + 1 ELSE @]

\* ProgressDue counting the recipients from one.
ProgressDueCountsFromOne(run) == (run.i + 1) % 10 = 0 \/ run.i = Len(run.users) - 1

\* i % 10 == 0 or i == len(users) - 1
ProgressDue(run) == run.i % 10 = 0 \/ run.i = Len(run.users) - 1

\* delivery_returned with a slip: an exception of the delivery call is
\* counted and then ends the loop.
delivery_returned_breaks(r, e) ==
    /\ runs[r].pc = "L239"
    /\ LET run == Counted(runs[r], e)
       IN  IF e # NoError
           THEN /\ LoopHead(r, [run EXCEPT !.i = Len(run.users)])
                /\ UNCHANGED broadcast_stats
           ELSE IF ProgressDue(run)
           THEN /\ broadcast_stats' = [broadcast_stats EXCEPT ![run.user_id] = <<StatsOf(run)>>]
                /\ runs' = [runs EXCEPT ![r] = [run EXCEPT !.pc = "L286",
                                                          !.progress_msg = BroadcastingMessage]]
                /\ UNCHANGED <<broadcast_in_progress, broadcasts>>
           ELSE /\ LoopHead(r, [run EXCEPT !.i = @ + 1])
                /\ UNCHANGED broadcast_stats
    /\ UNCHANGED <<users, channels, awaiting_broadcast, broadcast_cancelled,
                   cancel_pc, stats_message, last_join>>

\* The delivery call returns or raises: count it, then either store the
\* statistics and issue the edit of the progress message, or go on with the
\* next index.
delivery_returned(r, e) ==
    /\ runs[r].pc = "L239"
    /\ LET run == Counted(runs[r], e)
       IN  IF ProgressDue(run)
           THEN /\ broadcast_stats' = [broadcast_stats EXCEPT ![run.user_id] = <<StatsOf(run)>>]
                /\ runs' = [runs EXCEPT ![r] = [run EXCEPT !.pc = "L286",
                                                          !.progress_msg = BroadcastingMessage]]
                /\ UNCHANGED <<broadcast_in_progress, broadcasts>>
           ELSE /\ LoopHead(r, [run EXCEPT !.i = @ + 1])
                /\ UNCHANGED broadcast_stats
    /\ UNCHANGED <<users, channels, awaiting_broadcast, broadcast_cancelled,
                   cancel_pc, stats_message, last_join>>

\* The edit of the progress message returns or raises (logged, swallowed).
progress_edited(r, edit_ok) ==
    /\ runs[r].pc = "L286"
    /\ LoopHead(r, [runs[r] EXCEPT !.i = @ + 1,
                                   !.edit_failed = @ \/ ~edit_ok])
    /\ UNCHANGED <<users, channels, awaiting_broadcast, broadcast_cancelled, broadcast_stats,
                   cancel_pc, stats_message, last_join>>

\* The final edit ("Broadcast completed!") returns or raises (swallowed);
\* then show_broadcast_stats builds and sends the summary.
final_edited(r, edit_ok) ==
    /\ runs[r].pc = "L326"
    /\ runs' = [runs EXCEPT ![r].pc = "L335"]
    /\ show_broadcast_stats(runs[r].user_id)
    /\ UNCHANGED <<stores, user_data, cancel_pc, last_join>>

\* The summary was sent or raised: the handler returns and its locals are
\* gone.
summary_replied(r) ==
    /\ runs[r].pc = "L335"
    /\ runs' = [runs EXCEPT ![r] = [IdleRun EXCEPT !.pc = "done"]]
    /\ UNCHANGED <<stores, user_data, cancel_pc, stats_message, last_join>>

\* ------------------------------------------------------------- specification
\* A join request of a user the store does not hold yet, for channel "X",
\* is approved.
NewRecipientJoins(limit) ==
    /\ Len(users) < limit
    /\ approve_user(Len(users) + 1, "X", TRUE)

\* The engine with runs of one operator that may overlap: every handler of
\* the operator, every interleaving at the awaits.
Next ==
    \/ \E a \in ADMIN_IDS, ok \in BOOLEAN : broadcast(a, ok)
    \/ \E a \in ADMIN_IDS : cancel_broadcast(a)
    \/ \E a \in ADMIN_IDS, ok \in BOOLEAN : cancel_broadcast_replied(a, ok)
    \/ \E a \in ADMIN_IDS, ok \in BOOLEAN : button_handler(a, ok)
    \/ \E a \in ADMIN_IDS : handle_broadcast_message(a, RunIds)
    \/ \E r \in RunIds, ok \in BOOLEAN : progress_msg_replied(r, ok)
    \/ \E r \in RunIds, e \in OverlapOutcomes : delivery_returned(r, e)
    \/ \E r \in RunIds, ok \in BOOLEAN : progress_edited(r, ok)
    \/ \E r \in RunIds, ok \in BOOLEAN : final_edited(r, ok)
    \/ \E r \in RunIds : summary_replied(r)
    \/ \E r \in RunIds : no_users_replied(r)
    \/ NewRecipientJoins(MaxOverlapRecipients)

Spec == Init /\ [][Next]_vars

\* The engine with one run: every actor, every delivery outcome.
NextEngine ==
    \/ \E a \in Actors : start(a)
    \/ \E a \in Actors : stats(a)
    \/ \E a \in Actors, ok \in BOOLEAN : broadcast(a, ok)
    \/ \E a \in Actors : cancel_broadcast(a)
    \/ \E a \in Actors, ok \in BOOLEAN : cancel_broadcast_replied(a, ok)
    \/ \E a \in Actors, ok \in BOOLEAN : button_handler(a, ok)
    \/ \E a \in Actors : handle_broadcast_message(a, {1})
    \/ \E ok \in BOOLEAN : progress_msg_replied(1, ok)
    \/ \E e \in Outcomes : delivery_returned(1, e)
    \/ \E ok \in BOOLEAN : progress_edited(1, ok)
    \/ \E ok \in BOOLEAN : final_edited(1, ok)
    \/ summary_replied(1)
    \/ no_users_replied(1)
    \/ NewRecipientJoins(MaxRecipients)

SpecEngine == Init /\ [][NextEngine]_vars

\* The steps a run takes when a call to the platform returns or raises.
PlatformReturns ==
    \/ \E ok \in BOOLEAN : progress_msg_replied(1, ok)
    \/ \E e \in Outcomes : delivery_returned(1, e)
    \/ \E ok \in BOOLEAN : progress_edited(1, ok)
    \/ \E ok \in BOOLEAN : final_edited(1, ok)
    \/ summary_replied(1)
    \/ no_users_replied(1)

\* The engine with one run, where every call to the platform eventually
\* returns or raises.
SpecEngineLive == Init /\ [][NextEngine]_vars /\ WF_vars(PlatformReturns)

\* The engine with one run of the operator over a store long enough for a
\* progress update at an index after the first that is not the last.
NextProgress ==
    \/ \E a \in ADMIN_IDS, ok \in BOOLEAN : broadcast(a, ok)
    \/ \E a \in ADMIN_IDS, ok \in BOOLEAN : button_handler(a, ok)
    \/ \E a \in ADMIN_IDS : handle_broadcast_message(a, {1})
    \/ \E ok \in BOOLEAN : progress_msg_replied(1, ok)
    \/ \E e \in OverlapOutcomes : delivery_returned(1, e)
    \/ \E ok \in BOOLEAN : progress_edited(1, ok)
    \/ \E ok \in BOOLEAN : final_edited(1, ok)
    \/ summary_replied(1)
    \/ no_users_replied(1)
    \/ NewRecipientJoins(MaxProgressRecipients)

SpecProgress == Init /\ [][NextProgress]_vars

\* The approval path alone: join requests of every recipient for every
\* channel, in every order.
NextApproval ==
    \/ \E user_id \in RecipientIds, channel_id \in ChannelIds, ok \in BOOLEAN :
          approve_user(user_id, channel_id, ok)
    \/ \E ok \in BOOLEAN : notification_returned(ok)

SpecApproval == Init /\ [][NextApproval]_vars

\* ------------------------------------------------------------- properties
\* A run that has started and whose handler has not returned.
Active(r) == runs[r].pc \notin {"idle", "done"}
\* A run that has left its loop (exhausted or break).
LeftLoop(r) == runs[r].pc \in {"L326", "L335", "raised299"}
CountSum(run) == run.successful + run.blocked + run.deleted + run.unsuccessful
\* The recipients whose delivery call has returned or raised.
Processed(run) == Len(run.attempts) - (IF run.pc = "L239" THEN 1 ELSE 0)

\* C1: in every state of a run the four counters add up to the number of
\* recipients processed so far, which never exceeds the total fixed at the
\* snapshot; once the run has left its loop without observing a
\* cancellation, the sum equals the total.
C1_CountersAddUp ==
    \A r \in RunIds :
        Active(r) =>
            /\ CountSum(runs[r]) = Processed(runs[r])
            /\ Processed(runs[r]) <= runs[r].total_users
            /\ runs[r].total_users = Len(runs[r].users)
            /\ (LeftLoop(r) /\ ~runs[r].exit_cancelled) =>
                   CountSum(runs[r]) = runs[r].total_users

\* A run that completed over two recipients, one of them blocked.
C1_Witness ==
    \E r \in RunIds :
        /\ runs[r].pc = "L326"
        /\ ~runs[r].exit_cancelled
        /\ runs[r].total_users = 2
        /\ runs[r].successful = 1
        /\ runs[r].blocked = 1

\* C2: once a cancel request was accepted for a running broadcast, the run
\* issues no further delivery call.
C2_NoDeliveryAfterCancel ==
    [][\A r \in RunIds :
          runs[r].cancel_accepted => Len(runs'[r].attempts) <= Len(runs[r].attempts)]_vars

\* C3: the delivery calls of a run go to the recipients of the snapshot, in
\* order, one call each; a run that has left its loop and for which no
\* cancel request was accepted has called every recipient of the snapshot,
\* whatever deliveries and progress edits failed.
C3_EveryRecipientAttempted ==
    \A r \in RunIds :
        Active(r) =>
            /\ Len(runs[r].attempts) <= Len(runs[r].users)
            /\ runs[r].attempts = SubSeq(runs[r].users, 1, Len(runs[r].attempts))
            /\ (LeftLoop(r) /\ ~runs[r].cancel_accepted) => runs[r].attempts = runs[r].users

\* A run without cancel request that left its loop after a failed delivery
\* and a failed progress edit.
C3_Witness ==
    \E r \in RunIds :
        /\ runs[r].pc = "L326"
        /\ ~runs[r].cancel_accepted
        /\ runs[r].blocked >= 1
        /\ runs[r].edit_failed
        /\ Len(runs[r].attempts) = 2
        /\ runs[r].attempts = runs[r].users

\* C4: a run that has left its loop without observing a cancellation has
\* appended exactly one record, and the record carries its total and its
\* four counters.
C4_OneRecordPerRun ==
    \A r \in RunIds :
        (LeftLoop(r) /\ ~runs[r].exit_cancelled) =>
            /\ runs[r].persisted = 1
            /\ \E k \in 1 .. Len(broadcasts) :
                  /\ broadcasts[k] = BroadcastRecord(runs[r])
                  /\ broadcasts[k].total_users = Len(runs[r].users)
                  /\ broadcasts[k].successful + broadcasts[k].blocked + broadcasts[k].deleted
                         + broadcasts[k].unsuccessful = broadcasts[k].total_users

\* C5: the step in which a run leaves its loop with the cancel flag set, and
\* every later step of that run, leaves BROADCASTS_FILE as it was.
C5_CancelledRunWritesNothing ==
    [][\A r \in RunIds :
          /\ (InLoop(r) /\ runs'[r].pc \in {"L326", "raised299"} /\ Cancelled(runs[r].user_id))
                 => broadcasts' = broadcasts
          /\ (runs[r].pc \in {"L326", "L335"} /\ runs[r].exit_cancelled /\ runs'[r] # runs[r])
                 => broadcasts' = broadcasts]_vars

\* A run that was cancelled after its first delivery: nothing was written.
C5_Witness ==
    \E r \in RunIds :
        /\ runs[r].pc = "L335"
        /\ runs[r].exit_cancelled
        /\ Len(runs[r].attempts) = 1
        /\ runs[r].total_users = 2
        /\ runs[r].persisted = 0
        /\ broadcasts = <<>>

\* C6: when a run is cancelled, the statistics summary sent by the cancel
\* command and the one sent by the engine after the loop carry the run's
\* counters as they are when the summary is produced.
C6_SummaryShowsCounters ==
    [][\A a \in Actors : \A r \in RunIds :
          (runs[r].user_id = a /\ Active(r)) =>
              /\ (cancel_pc[a] = "L159" /\ cancel_broadcast_replied(a, TRUE) /\ Cancelled(a))
                     => stats_message'[a] = <<StatsOf(runs[r])>>
              /\ (final_edited(r, TRUE) /\ runs[r].exit_cancelled)
                     => stats_message'[a] = <<StatsOf(runs[r])>>]_vars

\* C7: a broadcast command, a cancel command or a press of the cancel
\* button by an actor outside ADMIN_IDS leaves user_data and the stores
\* unchanged.
C7_OutsiderChangesNothing ==
    [][\A a \in Actors \ ADMIN_IDS :
          (\/ \E ok \in BOOLEAN : broadcast(a, ok)
           \/ cancel_broadcast(a)
           \/ \E ok \in BOOLEAN : cancel_broadcast_replied(a, ok)
           \/ \E ok \in BOOLEAN : button_handler(a, ok))
              => UNCHANGED <<user_data, stores>>]_vars

\* The counters of run r change from the state to the next by one more in
\* the counter named c and by nothing else.
OnlyIncrements(r, c) ==
    /\ runs'[r].successful = runs[r].successful + (IF c = "successful" THEN 1 ELSE 0)
    /\ runs'[r].blocked = runs[r].blocked + (IF c = "blocked" THEN 1 ELSE 0)
    /\ runs'[r].deleted = runs[r].deleted + (IF c = "deleted" THEN 1 ELSE 0)
    /\ runs'[r].unsuccessful = runs[r].unsuccessful + (IF c = "unsuccessful" THEN 1 ELSE 0)

\* C8: a delivery that returned increments successful only; a delivery that
\* raised increments one failure counter only: blocked when the lower-cased
\* description contains "blocked", whatever else it contains; deleted when
\* it does not and contains "deleted" or "not found"; unsuccessful otherwise.
C8_Classification ==
    [][\A r \in RunIds : \A e \in Outcomes :
          delivery_returned(r, e) =>
              IF e = NoError THEN OnlyIncrements(r, "successful")
              ELSE IF Contains(Lower(e), StrBlocked) THEN OnlyIncrements(r, "blocked")
              ELSE IF Contains(Lower(e), StrDeleted) THEN OnlyIncrements(r, "deleted")
              ELSE IF Contains(Lower(e), StrNotFound) THEN OnlyIncrements(r, "deleted")
              ELSE OnlyIncrements(r, "unsuccessful")]_vars

\* The first delivery of a run raised "Not Found: blocked" and was counted
\* as blocked, not as deleted.
C8_Witness ==
    \E r \in RunIds :
        /\ Active(r)
        /\ runs[r].error_msg = Lower(ErrNotFoundBlocked)
        /\ Contains(runs[r].error_msg, StrNotFound)
        /\ ~Contains(ErrNotFoundBlocked, StrNotFound)
        /\ runs[r].blocked = 1
        /\ runs[r].deleted = 0
        /\ runs[r].unsuccessful = 0
        /\ runs[r].successful = 0

\* C9: approving a (recipient, channel) pair that the Recipient Store already
\* holds leaves the Recipient Store and the Channel Store as they are.
C9_ReapprovalChangesNothing ==
    [][\A user_id \in RecipientIds \cap {last_join'.user_id} :
       \A channel_id \in ApprovedChannels(users, user_id) :
          approve_user(user_id, channel_id, TRUE)
              => (users' = users /\ channels' = channels)]_vars

\* A pair was approved again: still one recipient record with one channel
\* entry, and one channel record.
C9_Witness ==
    /\ last_join.approved
    /\ last_join.repeated
    /\ Len(users) = 1
    /\ users[1].user_id = last_join.user_id
    /\ users[1].approved_channels = <<last_join.channel_id>>
    /\ channels = <<[channel_id |-> last_join.channel_id]>>

\* No identity occurs twice in the sequence of records s under field f.
Unique(s, f) == \A j, k \in 1 .. Len(s) : s[j][f] = s[k][f] => j = k

\* C10: recipient identities are unique in the Recipient Store and channel
\* identities in the Channel Store; the approved-channel set of a recipient
\* never loses a channel; and the pair of the join request approved last is
\* in both stores (so that every pair ever approved is).
C10_StoresGrowUnique ==
    /\ [](Unique(users, "user_id") /\ Unique(channels, "channel_id"))
    /\ [](last_join.approved =>
              /\ last_join.channel_id \in ApprovedChannels(users, last_join.user_id)
              /\ last_join.channel_id \in ChannelIdsOf(channels))
    /\ [][/\ \A user_id \in RecipientIds :
                 ApprovedChannels(users, user_id) \subseteq ApprovedChannels(users', user_id)
          /\ ChannelIdsOf(channels) \subseteq ChannelIdsOf(channels')]_vars

\* Recipient 1 was approved into X and then into Y: one record for 1 with
\* {X, Y}, two channel records.
C10_Witness ==
    /\ users = <<[user_id |-> 1, approved_channels |-> <<"X", "Y">>]>>
    /\ channels = <<[channel_id |-> "X"], [channel_id |-> "Y"]>>
    /\ last_join = [user_id |-> 1, channel_id |-> "Y", approved |-> TRUE, repeated |-> FALSE,
                    notice |-> "pending"]

\* C11: the stores are written for a join request exactly when approve()
\* returned: a request whose approve() raised leaves both stores as they
\* are, a request whose approve() returned leaves its pair in both stores,
\* and the return of the notification, sent or failed, leaves both stores
\* as they are with the pair still in them.
C11_ApprovalCoupledWithPersistence ==
    [][/\ \A user_id \in RecipientIds \cap {last_join'.user_id} :
          \A channel_id \in ChannelIds \cap {last_join'.channel_id} :
             /\ approve_user(user_id, channel_id, FALSE)
                    => (users' = users /\ channels' = channels)
             /\ approve_user(user_id, channel_id, TRUE)
                    => /\ channel_id \in ApprovedChannels(users', user_id)
                       /\ channel_id \in ChannelIdsOf(channels')
       /\ \A notify_ok \in BOOLEAN :
             notification_returned(notify_ok)
                 => /\ users' = users /\ channels' = channels
                    /\ last_join.channel_id \in ApprovedChannels(users', last_join.user_id)
                    /\ last_join.channel_id \in ChannelIdsOf(channels')]_vars

\* The request of recipient 2 for Y was approved and recorded and its
\* notification failed; then approve() raised for the request of recipient
\* 1 for X, and the stores hold the pair (2, Y) alone.
C11_Witness ==
    /\ last_join = [user_id |-> 1, channel_id |-> "X", approved |-> FALSE, repeated |-> FALSE,
                    notice |-> "none"]
    /\ users = <<[user_id |-> 2, approved_channels |-> <<"Y">>]>>
    /\ channels = <<[channel_id |-> "Y"]>>

\* The notification of an approved request failed: its pair is recorded.
C11_NoticeFailed ==
    /\ last_join.notice = "failed"
    /\ last_join.channel_id \in ApprovedChannels(users, last_join.user_id)

\* C12: when the delivery call for the recipient at zero-based index i has
\* returned or raised, the run edits the progress message exactly when i is
\* divisible by 10 or i is the last index of the snapshot; the edit is for
\* that index and carries the cancel button; and the progress message is
\* edited with the button at no other point of the run.
C12_ProgressAtTenthAndLast ==
    [][\A r \in RunIds :
          /\ (runs[r].pc = "L239" /\ CountSum(runs'[r]) = CountSum(runs[r]) + 1) =>
                 /\ (runs'[r].pc = "L286") <=>
                        (\/ \E k \in 0 .. MaxProgressRecipients : runs[r].i = 10 * k
                         \/ runs[r].i = runs[r].total_users - 1)
                 /\ (runs'[r].pc = "L286") =>
                        /\ runs'[r].i = runs[r].i
                        /\ runs'[r].progress_msg.text = "Broadcasting..."
                        /\ runs'[r].progress_msg.cancel_button
          /\ (runs'[r].pc = "L286" /\ runs[r].pc # "L286") =>
                 (runs[r].pc = "L239" /\ CountSum(runs'[r]) = CountSum(runs[r]) + 1)]_vars

\* A run over twelve recipients is editing the progress message after the
\* recipient at index 10, which is not the last.
C12_Witness ==
    \E r \in RunIds :
        /\ runs[r].pc = "L286"
        /\ runs[r].total_users = 12
        /\ runs[r].i = 10
        /\ CountSum(runs[r]) = 11
        /\ runs[r].progress_msg = BroadcastingMessage

\* C13: the recipients of a run are those USERS_FILE held when the run
\* started, in the order of the store: the list and the total of a run never
\* change while it runs, whatever join requests are approved meanwhile; the
\* delivery calls issued so far go to the first recipients of that list, one
\* call each, in order, and to nobody else.
C13_SnapshotFixed ==
    /\ [](\A r \in RunIds :
             Active(r) =>
                 /\ runs[r].total_users = Len(runs[r].users)
                 /\ Len(runs[r].users) <= Len(users)
                 /\ \A k \in 1 .. Len(runs[r].users) : runs[r].users[k] = users[k].user_id
                 /\ Len(runs[r].attempts) <= Len(runs[r].users)
                 /\ \A k \in 1 .. Len(runs[r].attempts) : runs[r].attempts[k] = runs[r].users[k]
                 /\ \A j, k \in 1 .. Len(runs[r].attempts) :
                        runs[r].attempts[j] = runs[r].attempts[k] => j = k)
    /\ [][\A r \in RunIds :
             (Active(r) /\ runs'[r].pc \notin {"idle", "done"}) =>
                 /\ runs'[r].users = runs[r].users
                 /\ runs'[r].total_users = runs[r].total_users]_vars

\* A run that started with recipient 1 alone has left its loop after one
\* delivery call, to recipient 1, while recipient 2 joined during the run.
C13_Witness ==
    \E r \in RunIds :
        /\ runs[r].pc = "L326"
        /\ ~runs[r].exit_cancelled
        /\ runs[r].users = <<1>>
        /\ runs[r].total_users = 1
        /\ runs[r].attempts = <<1>>
        /\ UserIds(users) = {1, 2}

\* C14: at most one run of an operator is in progress at any time: no two
\* invocations of handle_broadcast_message of the same operator are between
\* setting and deleting the running marker together.
C14_OneRunPerOperator ==
    \A a \in ADMIN_IDS :
        Cardinality({r \in RunIds : InLoop(r) /\ runs[r].user_id = a}) <= 1

\* C15: every run that has set the running marker eventually has it
\* cleared, provided every call to the platform eventually returns or raises.
C15_RunLeavesRunning ==
    \A a \in ADMIN_IDS : broadcast_in_progress[a] ~> ~broadcast_in_progress[a]

\* The same for the runs whose initial progress reply did not raise.
RunLeavesRunningUnlessReplyRaised ==
    \A a \in ADMIN_IDS :
        (broadcast_in_progress[a] /\ runs[1].pc # "raised224")
            ~> (~broadcast_in_progress[a] \/ runs[1].pc = "raised224")

\* C16: the awaiting state of an actor is taken back by a step of that
\* actor's cancel command or of that actor's content message, and by no
\* other step: start, stats, a repeated broadcast command, a press of the
\* cancel button, the steps of a run, join requests and every update of
\* another actor leave it set.
C16_AwaitingClearedByCancelOrContent ==
    [][\A a \in Actors :
          (awaiting_broadcast[a] /\ ~awaiting_broadcast'[a]) =>
              (cancel_broadcast(a) \/ handle_broadcast_message(a, {1}))]_vars

\* The operator is awaiting content although a run of theirs is in its loop
\* and their cancel command was handled (it cancelled the run, not the
\* awaiting state), and the other actor has pressed the cancel button.
C16_Witness ==
    \E a \in ADMIN_IDS : \E b \in Actors \ {a} :
        /\ awaiting_broadcast[a]
        /\ cancel_pc[a] = "L159"
        /\ InLoop(1) /\ runs[1].user_id = a
        /\ broadcast_cancelled[b] = "true"

\* C17: a cancel command of an actor who is awaiting content while no run
\* of theirs is in progress takes the awaiting state back and touches no run
\* and no store; the awaiting state is entered by the broadcast command
\* alone; and a content message starts a run, and a run issues a delivery
\* call, only for an actor who was awaiting content when the message came.
C17_CancelWhileAwaiting ==
    [][\A a \in Actors :
          /\ (awaiting_broadcast[a] /\ ~broadcast_in_progress[a] /\ cancel_broadcast(a)) =>
                 /\ ~awaiting_broadcast'[a]
                 /\ ~broadcast_in_progress'[a]
                 /\ runs' = runs
                 /\ UNCHANGED stores
          /\ (~awaiting_broadcast[a] /\ awaiting_broadcast'[a]) =>
                 \E ok \in BOOLEAN : broadcast(a, ok)
          /\ \A r \in RunIds :
                 /\ (runs[r].pc = "idle" /\ runs'[r].pc # "idle" /\ runs'[r].user_id = a)
                        => awaiting_broadcast[a]
                 /\ (runs[r].user_id = a /\ Len(runs'[r].attempts) > Len(runs[r].attempts))
                        => Active(r)]_vars

\* The operator cancelled while awaiting content: the answer "Broadcast
\* preparation cancelled." is on its way, the store holds recipients, no run
\* has started and the session is neither awaiting nor in progress.
C17_Witness ==
    \E a \in ADMIN_IDS :
        /\ cancel_pc[a] = "L163"
        /\ ~awaiting_broadcast[a]
        /\ ~broadcast_in_progress[a]
        /\ users # <<>>
        /\ \A r \in RunIds : runs[r] = IdleRun

\* C18: a content message handled while USERS_FILE is empty takes the
\* awaiting state back, leaves the running marker, the statistics, the
\* cancel flag and every store as they are and goes to the reply "No users
\* in database to broadcast to."; that invocation has issued no delivery
\* call and written no record, and when its reply has returned nothing of it
\* remains.
C18_EmptyStoreStartsNothing ==
    /\ [][\A a \in Actors :
             (users = <<>> /\ handle_broadcast_message(a, {1})) =>
                 /\ ~awaiting_broadcast'[a]
                 /\ broadcast_in_progress' = broadcast_in_progress
                 /\ broadcast_stats' = broadcast_stats
                 /\ broadcast_cancelled' = broadcast_cancelled
                 /\ UNCHANGED stores
                 /\ runs'[1].pc = "L199"]_vars
    /\ [](\A r \in RunIds :
             runs[r].pc = "L199" =>
                 /\ runs[r].attempts = <<>>
                 /\ runs[r].persisted = 0
                 /\ runs[r].progress_msg = NoMessage)
    /\ [][\A r \in RunIds :
             (runs[r].pc = "L199" /\ runs'[r] # runs[r]) =>
                 /\ runs'[r] = IdleRun
                 /\ UNCHANGED <<stores, user_data>>]_vars

\* The operator's content message found the store empty: the reply is on
\* its way, the session is neither awaiting nor in progress and no record
\* was written.
C18_Witness ==
    \E a \in ADMIN_IDS :
        /\ runs[1].pc = "L199"
        /\ runs[1].user_id = a
        /\ users = <<>>
        /\ ~awaiting_broadcast[a]
        /\ ~broadcast_in_progress[a]
        /\ broadcast_stats[a] = <<>>
        /\ broadcasts = <<>>

\* C19: the progress message is replaced by "Broadcast completed!" only by
\* a run that was not cancelled.
C19_CompletedOnlyIfNotCancelled ==
    \A r \in RunIds :
        runs[r].progress_msg = CompletedMessage => ~runs[r].exit_cancelled

\* Every step leaves in the stores what they held: the records of
\* BROADCASTS_FILE, CHANNELS_FILE and USERS_FILE stay where they are (a
\* recipient's list of channels may grow), and new records are appended.
StoresNeverLoseRecords ==
    [][/\ Len(broadcasts) <= Len(broadcasts')
       /\ SubSeq(broadcasts', 1, Len(broadcasts)) = broadcasts
       /\ Len(channels) <= Len(channels')
       /\ SubSeq(channels', 1, Len(channels)) = channels
       /\ Len(users) <= Len(users')
       /\ \A k \in 1 .. Len(users) :
             /\ users'[k].user_id = users[k].user_id
             /\ SeqToSet(users[k].approved_channels) \subseteq SeqToSet(users'[k].approved_channels)]_vars

\* C20: no update of a store is lost: no step removes a record from a
\* store, the pair of the join request approved last is in both stores, and
\* every run that has left its loop without being cancelled has appended its
\* record.
C20_NoLostUpdates ==
    /\ StoresNeverLoseRecords
    /\ [](last_join.approved =>
              /\ last_join.channel_id \in ApprovedChannels(users, last_join.user_id)
              /\ last_join.channel_id \in ChannelIdsOf(channels))
    /\ [](\A r \in RunIds :
             (LeftLoop(r) /\ ~runs[r].exit_cancelled) =>
                 /\ runs[r].persisted = 1
                 /\ BroadcastRecord(runs[r]) \in SeqToSet(broadcasts))

\* C20 without the runs that ended in the KeyError of line 299.
NoLostUpdatesUnlessRaised ==
    /\ StoresNeverLoseRecords
    /\ [](last_join.approved =>
              /\ last_join.channel_id \in ApprovedChannels(users, last_join.user_id)
              /\ last_join.channel_id \in ChannelIdsOf(channels))
    /\ [](\A r \in RunIds :
             (runs[r].pc \in {"L326", "L335"} /\ ~runs[r].exit_cancelled) =>
                 /\ runs[r].persisted = 1
                 /\ BroadcastRecord(runs[r]) \in SeqToSet(broadcasts))

=============================================================================
